---- MODULE Spec2Model ----
(***************************************************************************)
(* Portal Inbox Extension: the Data namespace (message loading, mapping,   *)
(* read-state reconciliation, read-flag update, reply creation) together   *)
(* with the entry points of Main and the public API that drive it.         *)
(*                                                                         *)
(* Encoding of JavaScript values:                                          *)
(*   - an absent property is the string "undefined", a null one "null";    *)
(*   - a timestamp is a natural number (its epoch value), an absent one    *)
(*     is NoDate; localStorage.getItem of a missing key is NoDate too;     *)
(*   - an optional object (partyid_contact) is a sequence of length 0/1.   *)
(* One action is one run of the event loop: a handler up to its first      *)
(* await, or the continuation after a timer / promise settles.             *)
(***************************************************************************)
EXTENDS Integers, Sequences, FiniteSets, TLC

\* ------------------------------------------------------------------------
\* Bounds of the model
\* ------------------------------------------------------------------------
MaxTime == 2        \* timestamps and clock readings range over 1..MaxTime
MaxInFlight == 1    \* asynchronous operations pending at the same time
MaxWrites == 1      \* read-flag updates and replies pending at the same time
MaxOverlap == 2     \* load cycles pending at the same time in OverlapSpec

Undefined == "undefined"
Null == "null"
NoDate == -1

Times == 1..MaxTime
Ids == {"m1", "m2"}

VARIABLES
  phase,        \* "constructed" before Main.init has run setup, then "ready"
  isLocal,      \* Data.isLocalEnvironment() for the page's location
  config,       \* Data.config after mergeConfig
  messages,     \* Data.state.messages
  unreadCount,  \* Data.state.unreadCount
  showArchived, \* Data.state.showArchived
  isLoading,    \* Data.state.isLoading
  isLoaded,     \* Data.state.isLoaded
  view,         \* what the widget shows: "loading", "messages" or "error"
  lastChecked,  \* localStorage["portalInbox_lastCheckedComments"]
  loads,        \* load cycles in flight, in the order they were started
  updates,      \* read-flag updates in flight
  replies,      \* createReply calls in flight
  ev            \* history: the handler that ran last and its outcome

vars == <<phase, isLocal, config, messages, unreadCount, showArchived,
          isLoading, isLoaded, view, lastChecked, loads, updates,
          replies, ev>>

\* ------------------------------------------------------------------------
\* JavaScript value helpers
\* ------------------------------------------------------------------------
\* `v !== undefined && v !== null`
Present(v) == v # Undefined /\ v # Null

\* truthiness of a string-valued property ("" is the empty string)
Truthy(v) == v \notin {Undefined, Null, ""}

\* the boolean carried by a JSON true / false
BoolOf(v) == v = "true"

\* `stored ? new Date(stored) : new Date(0)`
DateOrEpoch(stored) == IF stored = NoDate THEN 0 ELSE stored

\* ------------------------------------------------------------------------
\* Raw records as the two sources deliver them
\* ------------------------------------------------------------------------
Contact(cid, name) == [contactid |-> cid, fullname |-> name]
Party(mask, contact) == [participationtypemask |-> mask, partyid_contact |-> contact]

\* the staff member as sender (no contact reference), then the portal contact
GoodParties == <<Party(1, <<>>), Party(2, <<Contact("c1", "John Doe")>>)>>

\* two recipient-role parties with a contact reference, a party list without
\* recipient, and recipients whose contact lacks an id
TwoRecipients == <<Party(2, <<>>), Party(2, <<Contact("c1", "John Doe")>>),
                   Party(2, <<Contact("c2", "Jane Roe")>>)>>
NoRecipient == <<Party(1, <<Contact("c1", "John Doe")>>), Party(2, <<>>)>>
NoContactId == <<Party(2, <<Contact(Undefined, "John Doe")>>)>>

\* a recipient whose expanded contact carries its id but no `fullname`
NamelessRecipient == <<Party(1, <<>>), Party(2, <<Contact("c1", Undefined)>>)>>

\* `subject` and `_regardingobjectid_value` of the record known as i: the
\* first row has both, the second neither
SubjectOf(i) == IF i = "m1" THEN "Your application" ELSE Undefined
RegardingOf(i) == IF i = "m1" THEN "app-1" ELSE Undefined

Legacy(i, d, r) ==
  [activityid |-> Undefined, id |-> i, from |-> "Support", body |-> "hi",
   date |-> d, read |-> r, createdon |-> NoDate, hasread |-> Undefined,
   createdby |-> Undefined, createdbyName |-> Undefined, parties |-> <<>>,
   subject |-> SubjectOf(i), regarding |-> Undefined]

Rel(i, c, d, h, by, name, ps) ==
  [activityid |-> i, id |-> Undefined, from |-> Undefined, body |-> Undefined,
   date |-> d, read |-> Undefined, createdon |-> c, hasread |-> h,
   createdby |-> by, createdbyName |-> name, parties |-> ps,
   subject |-> SubjectOf(i), regarding |-> RegardingOf(i)]

GoodRel(i, c, h) == Rel(i, c, NoDate, h, "s1", "Support Team", GoodParties)

\* records of the flat legacy shape, with and without a `read` property
LegacyRecords(i) ==
  {Legacy(i, d, r) : d \in Times, r \in {Undefined, "true", "false"}}

\* well-formed relationship-backed records whose read-flag field is h
GoodRelRecords(i, flags) == {GoodRel(i, c, h) : c \in Times, h \in flags}

\* relationship-backed records without `createdon`: one with neither
\* `createdon` nor `date`, one with a `date` property only
UndatedRelRecords(i) ==
  {Rel(i, NoDate, d, Undefined, "s1", "Support Team", GoodParties) :
     d \in {NoDate, 1}}

\* a relationship-backed record without its expanded parties
BadRelRecords(i) ==
  {Rel(i, 1, NoDate, Undefined, "s1", "Support Team", <<>>)}

\* The rows a source can deliver. "m1" is a portal comment that may carry the
\* server read flag; "m2" is a legacy record or a portal comment without it.
Rows1 ==
  GoodRelRecords("m1", {Undefined, "true", "false"}) \cup {GoodRel("m1", 1, Null)}
Rows2 ==
  LegacyRecords("m2") \cup GoodRelRecords("m2", {Undefined})
    \cup UndatedRelRecords("m2") \cup BadRelRecords("m2")

RecordListSet ==
  {<<>>} \cup {<<x>> : x \in Rows1 \cup Rows2}
    \cup {<<x, y>> : x \in Rows1, y \in Rows2}

\* The parsed body of the snapshot file: the rows under `value`, legacy rows
\* under `messages`, or an object with neither key.
Payload(key, rows) == [key |-> key, rows |-> rows]

SnapshotSet ==
  {Payload("value", rows) : rows \in RecordListSet}
    \cup {Payload("messages", rows) :
            rows \in {<<>>} \cup {<<x>> : x \in LegacyRecords("m2")}}
    \cup {Payload("neither", <<>>)}

\* TRUE when mapping the rows reads the clock
ReadsClock(rows) == \E k \in 1..Len(rows) : rows[k].createdon = NoDate

\* ------------------------------------------------------------------------
\* Data.mapPortalDataToMessages
\* ------------------------------------------------------------------------
\* `comment.from && comment.body && !comment.activityid`
IsLegacyShape(comment) ==
  Truthy(comment.from) /\ Truthy(comment.body) /\ ~Truthy(comment.activityid)

\* parties.find(p => p.participationtypemask === 2 && p.partyid_contact != null):
\* the index of the first match, 0 when there is none
FindToPartyLast(parties) ==
  LET hits == {k \in 1..Len(parties) :
                 /\ parties[k].participationtypemask = 2
                 /\ Len(parties[k].partyid_contact) = 1}
  IN  IF hits = {} THEN 0
      ELSE CHOOSE k \in hits : \A j \in hits : j <= k

FindToParty(parties) ==
  LET hits == {k \in 1..Len(parties) :
                 /\ parties[k].participationtypemask = 2
                 /\ Len(parties[k].partyid_contact) = 1}
  IN  IF hits = {} THEN 0
      ELSE CHOOSE k \in hits : \A j \in hits : k <= j

\* the check that throws for a record, "" when the record maps
MapErrorNameUnchecked(comment) ==
  IF IsLegacyShape(comment) THEN ""
  ELSE IF ~Truthy(comment.createdby) THEN "Created by value not found"
  ELSE IF Len(comment.parties) = 0 THEN "Activity parties not found"
  ELSE IF FindToParty(comment.parties) = 0 THEN "Contact party not found"
  ELSE IF ~Truthy(comment.parties[FindToParty(comment.parties)]
                    .partyid_contact[1].contactid)
       THEN "Contact ID not found"
  ELSE ""

MapError(comment) ==
  IF IsLegacyShape(comment) THEN ""
  ELSE IF ~Truthy(comment.createdby) THEN "Created by value not found"
  ELSE IF Len(comment.parties) = 0 THEN "Activity parties not found"
  ELSE IF FindToParty(comment.parties) = 0 THEN "Contact party not found"
  ELSE IF ~Truthy(comment.parties[FindToParty(comment.parties)]
                    .partyid_contact[1].contactid)
       THEN "Contact ID not found"
  ELSE IF ~Truthy(comment.createdbyName) THEN "Staff name not found"
  ELSE ""

\* `isRead = createdDate <= lastCheckedDate`, the stored timestamp read as
\* the epoch when there is none
ReadByDateStrict(createdDate, stored) == createdDate < DateOrEpoch(stored)

ReadByDate(createdDate, stored) == createdDate <= DateOrEpoch(stored)

\* read status of a relationship-backed record: server field, else the
\* comparison of its creation date with the stored timestamp
DeriveReadLocalFirst(comment, stored, clock) ==
  \/ comment.createdon # NoDate /\ ReadByDate(comment.createdon, stored)
  \/ Present(comment.hasread) /\ BoolOf(comment.hasread)

DeriveRead(comment, stored, clock) ==
  IF Present(comment.hasread)
    THEN BoolOf(comment.hasread)
    ELSE LET createdDate == IF comment.createdon # NoDate THEN comment.createdon
                            ELSE IF comment.date # NoDate THEN comment.date
                            ELSE clock
         IN  ReadByDate(createdDate, stored)

\* `read: comment.read !== undefined ? comment.read : false`
LegacyRead(comment) ==
  IF comment.read # Undefined THEN BoolOf(comment.read) ELSE FALSE

\* `date: comment.createdon || new Date().toISOString()`
MessageDate(comment, clock) ==
  IF comment.createdon # NoDate THEN comment.createdon ELSE clock

\* `subject: comment.subject || "(No Subject)"`
MessageSubject(comment) ==
  IF Truthy(comment.subject) THEN comment.subject ELSE "(No Subject)"

\* the message a record that passes every check maps to
MapRecord(comment, stored, clock) ==
  IF IsLegacyShape(comment)
    THEN [id |-> comment.id, from |-> comment.from, date |-> comment.date,
          read |-> LegacyRead(comment), category |-> "general",
          toContact |-> Undefined, toContactId |-> Undefined,
          fromStaffId |-> Undefined, hasReadValue |-> Undefined,
          subject |-> MessageSubject(comment),
          regardingObjectId |-> Undefined]
    ELSE LET toParty == comment.parties[FindToParty(comment.parties)]
         IN  [id |-> comment.activityid,
              from |-> comment.createdbyName,
              date |-> MessageDate(comment, clock),
              read |-> DeriveRead(comment, stored, clock),
              category |-> "portal-comment",
              toContact |-> toParty.partyid_contact[1].fullname,
              toContactId |-> toParty.partyid_contact[1].contactid,
              fromStaffId |-> comment.createdby,
              hasReadValue |-> comment.hasread,
              subject |-> MessageSubject(comment),
              regardingObjectId |-> comment.regarding]

\* records.map(...) throws as soon as one record fails a check
MapThrows(records) == \E k \in 1..Len(records) : MapError(records[k]) # ""

mapPortalDataToMessages(records, stored, clock) ==
  [k \in 1..Len(records) |-> MapRecord(records[k], stored, clock)]

\* ------------------------------------------------------------------------
\* Data.processMessages
\* ------------------------------------------------------------------------
\* `messages.filter(msg => !msg.read).length`
CountRead(msgs) == Cardinality({k \in 1..Len(msgs) : msgs[k].read})

CountUnread(msgs) == Cardinality({k \in 1..Len(msgs) : ~msgs[k].read})

\* the stored timestamp after the sync with the most recent read message
SyncLastCheckedNever(msgs, stored) == stored

SyncLastCheckedOldest(msgs, stored) ==
  LET readDates == {msgs[k].date : k \in {j \in 1..Len(msgs) :
                                            msgs[j].read /\ msgs[j].date # NoDate}}
  IN  IF readDates = {} THEN stored
      ELSE LET oldestRead == CHOOSE d \in readDates : \A e \in readDates : d <= e
           IN  IF oldestRead > DateOrEpoch(stored) THEN oldestRead
               ELSE stored

SyncLastChecked(msgs, stored) ==
  LET readDates == {msgs[k].date : k \in {j \in 1..Len(msgs) :
                                            msgs[j].read /\ msgs[j].date # NoDate}}
  IN  IF readDates = {} THEN stored
      ELSE LET mostRecentRead == CHOOSE d \in readDates : \A e \in readDates : e <= d
           IN  IF mostRecentRead > DateOrEpoch(stored) THEN mostRecentRead
               ELSE stored

\* ------------------------------------------------------------------------
\* Message lookup and local mutation
\* ------------------------------------------------------------------------
\* messages.find(msg => msg.id === messageId): index of the first match, else 0
FindMessage(msgs, messageId) ==
  LET hits == {k \in 1..Len(msgs) : msgs[k].id = messageId}
  IN  IF hits = {} THEN 0
      ELSE CHOOSE k \in hits : \A j \in hits : k <= j

\* `message.read = true` on the message found
SetRead(msgs, k) == [msgs EXCEPT ![k].read = TRUE]

\* `messages.forEach(msg => msg.read = true)`
SetAllRead(msgs) == [k \in 1..Len(msgs) |-> [msgs[k] EXCEPT !.read = TRUE]]

\* Data.getFilteredMessages
getFilteredMessages(msgs, archived) ==
  IF archived THEN SelectSeq(msgs, LAMBDA m : m.read)
  ELSE SelectSeq(msgs, LAMBDA m : ~m.read)

\* ------------------------------------------------------------------------
\* Environment and configuration
\* ------------------------------------------------------------------------
\* window.location of the page; a hostname is the sequence of its labels
Location(protocol, hostname) == [protocol |-> protocol, hostname |-> hostname]

Locations ==
  { Location("http:", <<"localhost">>),
    Location("http:", <<"127", "0", "0", "1">>),
    Location("http:", <<"192", "168", "1", "20">>),
    Location("http:", <<"10", "0", "0", "5">>),
    Location("http:", <<"dev", "local">>),
    Location("file:", <<>>),
    Location("https:", <<"172", "16", "0", "1">>),
    Location("https:", <<"contoso", "powerappsportals", "com">>) }

\* Data.isLocalEnvironment
isLocalEnvironment(location) ==
  LET hostname == location.hostname
      n == Len(hostname)
  IN  \/ hostname = <<"localhost">>
      \/ hostname = <<"127", "0", "0", "1">>
      \/ n >= 3 /\ hostname[1] = "192" /\ hostname[2] = "168"
      \/ n >= 2 /\ hostname[1] = "10"
      \/ n >= 2 /\ hostname[n] = "local"
      \/ location.protocol = "file:"

\* portalDataSource: operations.{read,create,update}.enabled, with
\* operations.read.filter null and no regardingObject
Operations(r, c, u) ==
  [read |-> r, create |-> c, update |-> u, filter |-> Null,
   navigationProperty |-> Undefined, entitySetName |-> Undefined]

\* a portalDataSource with operations.read.filter and regardingObject set
Queried(ops, filter, navigationProperty, entitySetName) ==
  [ops EXCEPT !.filter = filter, !.navigationProperty = navigationProperty,
              !.entitySetName = entitySetName]

AllEnabled == Operations(TRUE, TRUE, TRUE)

\* Main.config as declared: no localDataSource, a portalDataSource with
\* read, create and update enabled
DefaultConfig ==
  [localDataSource |-> FALSE, portalDataSource |-> <<AllEnabled>>,
   prefix |-> Undefined, enabled |-> Undefined]

\* an argument of init: portalDataSource is left out, null, or an object
\* whose operations carry the given flags
Options(container, localDS, portalDS, ops) ==
  [containerId |-> container, localDataSource |-> localDS,
   portalDataSource |-> portalDS, operations |-> ops,
   prefix |-> Undefined, enabled |-> Undefined]

OptionsSet ==
  { Options(TRUE, TRUE, "omitted", AllEnabled),
    Options(TRUE, TRUE, "null", AllEnabled),
    Options(TRUE, FALSE, "given", Operations(FALSE, TRUE, TRUE)),
    Options(TRUE, FALSE, "given", Operations(TRUE, FALSE, FALSE)),
    Options(TRUE, FALSE, "omitted", AllEnabled),
    Options(FALSE, TRUE, "given", AllEnabled) }

\* Main.mergeConfig(Main.config, options)
mergeConfig(target, options) ==
  [localDataSource |-> IF options.localDataSource THEN TRUE
                       ELSE target.localDataSource,
   portalDataSource |-> IF options.portalDataSource = "omitted"
                          THEN target.portalDataSource
                        ELSE IF options.portalDataSource = "null" THEN <<>>
                        ELSE <<options.operations>>,
   prefix |-> IF options.prefix # Undefined THEN options.prefix
              ELSE target.prefix,
   enabled |-> IF options.enabled # Undefined THEN options.enabled
               ELSE target.enabled]

\* the checks of Main.init that return before mergeConfig
InitRejects(options) ==
  \/ ~options.localDataSource /\ options.portalDataSource # "given"
  \/ ~options.containerId

HasPortal(cfg) == Len(cfg.portalDataSource) = 1

\* the branch Data.loadMessages takes
SelectSource(local, cfg) ==
  IF local /\ cfg.localDataSource THEN "local"
  ELSE IF ~local /\ HasPortal(cfg) THEN "portal"
  ELSE IF cfg.localDataSource THEN "fallback"
  ELSE "none"

\* ------------------------------------------------------------------------
\* Request construction. A string built by concatenation is the sequence of
\* its pieces.
\* ------------------------------------------------------------------------
DirectionFilter == "adx_portalcommentdirectioncode eq 2"

\* parts.join(sep)
RECURSIVE Join(_, _)
Join(parts, sep) ==
  IF Len(parts) = 0 THEN <<>>
  ELSE IF Len(parts) = 1 THEN parts[1]
  ELSE parts[1] \o <<sep>> \o Join(Tail(parts), sep)

\* the $filter of the load query
BuildFilterReplacing(cfg) ==
  IF Truthy(cfg.portalDataSource[1].filter)
    THEN <<"(", cfg.portalDataSource[1].filter, ")">>
    ELSE <<DirectionFilter>>

BuildFilter(cfg) ==
  LET readOps == cfg.portalDataSource[1]
      filterParts == IF Truthy(readOps.filter)
                       THEN <<(<<DirectionFilter>>), <<"(", readOps.filter, ")">> >>
                       ELSE <<(<<DirectionFilter>>)>>
  IN  Join(filterParts, " and ")

\* Data.getRegardingObjectConfig
getRegardingObjectConfig(cfg) ==
  LET defaultConfig == cfg.portalDataSource[1]
      prefix == IF Truthy(cfg.prefix) THEN cfg.prefix ELSE "msfed"
  IN  [entitySetName |->
         IF Truthy(defaultConfig.entitySetName)
           THEN <<defaultConfig.entitySetName>>
           ELSE <<prefix, "_applications">>,
       navigationProperty |->
         IF Truthy(defaultConfig.navigationProperty)
           THEN <<defaultConfig.navigationProperty>>
           ELSE <<"regardingobjectid_", prefix, "_application">>]

Bound(mask, key, entitySet, id) ==
  [participationtypemask |-> mask, key |-> key, value |-> <<"/", entitySet, "(", id, ")">>]

\* replyPayload of createReply
ReplyPayloadSameRoles(originalMessage, replyText, cfg) ==
  LET regardingConfig == getRegardingObjectConfig(cfg)
  IN  [subject |-> <<"Re: ", originalMessage.subject>>,
       description |-> replyText,
       adx_portalcommentdirectioncode |-> 1,
       regardingKey |-> regardingConfig.navigationProperty \o <<"@odata.bind">>,
       regardingValue |-> <<"/">> \o regardingConfig.entitySetName
                            \o <<"(", originalMessage.regardingObjectId, ")">>,
       parties |-> <<Bound(1, "partyid_systemuser@odata.bind", "systemusers",
                           originalMessage.fromStaffId),
                     Bound(2, "partyid_contact@odata.bind", "contacts",
                           originalMessage.toContactId)>>]

ReplyPayload(originalMessage, replyText, cfg) ==
  LET regardingConfig == getRegardingObjectConfig(cfg)
  IN  [subject |-> <<"Re: ", originalMessage.subject>>,
       description |-> replyText,
       adx_portalcommentdirectioncode |-> 1,
       regardingKey |-> regardingConfig.navigationProperty \o <<"@odata.bind">>,
       regardingValue |-> <<"/">> \o regardingConfig.entitySetName
                            \o <<"(", originalMessage.regardingObjectId, ")">>,
       parties |-> <<Bound(1, "partyid_contact@odata.bind", "contacts",
                           originalMessage.toContactId),
                     Bound(2, "partyid_systemuser@odata.bind", "systemusers",
                           originalMessage.fromStaffId)>>]

\* ------------------------------------------------------------------------
\* Asynchronous operations in flight
\* ------------------------------------------------------------------------
\* stage "timer": the 4 s timer of the snapshot loader is running
\* stage "fetch": the snapshot file is being fetched
\* stage "token": getPortalToken is pending
\* stage "request": the Web API request has been sent
\* `overtaken` records that an operation started later has already finished,
\* `joined` that the operation was started while another load was pending,
\* `patched` holds the ids of the messages whose PATCH has been answered with
\* success while the request of the operation was under way;
\* `arg` is what the operation holds on to: the $filter of a GET, the
\* message and text of a reply and then the payload of its POST
Op(kind, id, stage, token) ==
  [kind |-> kind, id |-> id, stage |-> stage, token |-> token,
   overtaken |-> FALSE, joined |-> FALSE, patched |-> {}, arg |-> <<>>]

InFlight == Len(loads) + Len(updates) + Len(replies)
Room == InFlight < MaxInFlight
WriteRoom == Room /\ Len(updates) + Len(replies) < MaxWrites

\* continuation of `await this.getPortalToken()` when the token arrives:
\* the request is sent with it
TokenResolved(op) == <<[op EXCEPT !.stage = "request", !.token = "ok"]>>

\* continuation when getPortalToken rejects: control goes to the catch block
TokenRejectedSends(op) == <<[op EXCEPT !.stage = "request", !.token = "failed"]>>

TokenRejected(op) == <<>>

\* the operations left after the k-th one has taken a step to `next`; when it
\* has finished (next is empty) the ones started before it are overtaken
Step(seq, k, next) ==
  [j \in 1..(Len(seq) - 1 + Len(next)) |->
     IF j < k THEN [seq[j] EXCEPT !.overtaken = (@ \/ Len(next) = 0)]
     ELSE IF Len(next) = 1 /\ j = k THEN next[1]
     ELSE seq[j + 1 - Len(next)]]

\* every call of loadMessages starts a cycle of its own; the cycle is named
\* by the first tag no pending cycle carries
Tags == <<"L1", "L2", "L3", "L4">>

FreshTag(ls) ==
  Tags[CHOOSE n \in 1..(Len(ls) + 1) :
         /\ \A k \in 1..Len(ls) : ls[k].id # Tags[n]
         /\ \A m \in 1..(n - 1) : \E k \in 1..Len(ls) : ls[k].id = Tags[m]]

\* a loader is called: its cycle is pending next to the ones already pending
EnqueueAlone(ls, op) == <<op>>

Enqueue(ls, op) == Append(ls, op)

\* What the step taken last reported: the handler, the message id it acted
\* on, and its outcome (the value returned or the line logged). Steps whose
\* outcome is visible in the state itself report Quiet.
\*   since  : the clock reading of markAllMessagesAsRead while the steps taken
\*            after it are those of the load cycle started right after it
\*   rows   : the rows a load cycle has just mapped and installed
\*   stored : the stored timestamp as the mapper read it
\*   stale  : the load cycle that reports had been overtaken by a later one
\*   key    : the key of the snapshot body the rows were found under
Chained(op, id, res, since) ==
  [op |-> op, id |-> id, res |-> res, since |-> since, rows |-> <<>>,
   stored |-> NoDate, stale |-> FALSE, key |-> ""]
Event(op, id, res) == Chained(op, id, res, NoDate)
Rendered(op, since, rows, stored) ==
  [op |-> op, id |-> "", res |-> "rendered", since |-> since, rows |-> rows,
   stored |-> stored, stale |-> FALSE, key |-> ""]

\* the event of the k-th load cycle finishing
Finished(k, event) == [event EXCEPT !.id = loads[k].id, !.stale = loads[k].overtaken]

Quiet == Event("", "", "")

\* the `since` a step of the k-th load cycle hands on
Carry(k) == IF k = Len(loads) THEN ev.since ELSE NoDate

envVars == <<phase, isLocal, config>>
dataVars == <<messages, unreadCount, lastChecked>>
flagVars == <<isLoading, isLoaded, view>>

\* ------------------------------------------------------------------------
\* Initial state: the script has been evaluated, init has not been called
\* ------------------------------------------------------------------------
Init ==
  /\ phase = "constructed"
  /\ \E location \in Locations : isLocal = isLocalEnvironment(location)
  /\ config = DefaultConfig
  /\ messages = <<>>
  /\ unreadCount = 0
  /\ showArchived = FALSE
  /\ isLoading = FALSE
  /\ isLoaded = FALSE
  /\ view = "none"
  /\ lastChecked \in {NoDate} \cup Times
  /\ loads = <<>>
  /\ updates = <<>>
  /\ replies = <<>>
  /\ ev = Event("script", "", "")

\* ------------------------------------------------------------------------
\* Data.loadMessages
\* ------------------------------------------------------------------------
\* TRUE when the call leaves a load cycle pending
LoadPends(cfg) ==
  LET src == SelectSource(isLocal, cfg)
  IN  \/ src \in {"local", "fallback"}
      \/ src = "portal" /\ cfg.portalDataSource[1].read

\* the catch blocks of the loaders, and the last branch of loadMessages
LoadErrorRendersList ==
  /\ isLoading' = FALSE
  /\ isLoaded' = TRUE
  /\ view' = "messages"

LoadError ==
  /\ isLoading' = FALSE
  /\ isLoaded' = TRUE
  /\ view' = "error"

\* the synchronous part of loadMessages under configuration cfg
LoadMessagesKeepsLoaded(cfg) ==
  LET src == SelectSource(isLocal, cfg)
  IN  IF src \in {"local", "fallback"}
        THEN /\ isLoading' = TRUE
             /\ isLoaded' = isLoaded
             /\ view' = view
             /\ loads' = Enqueue(loads,
                  [Op("local", FreshTag(loads), "timer", "none")
                     EXCEPT !.joined = loads # <<>>])
      ELSE IF src = "portal" /\ cfg.portalDataSource[1].read
        THEN /\ isLoading' = TRUE
             /\ isLoaded' = isLoaded
             /\ view' = view
             /\ loads' = Enqueue(loads,
                  [Op("portal", FreshTag(loads), "token", "pending")
                     EXCEPT !.arg = BuildFilter(cfg), !.joined = loads # <<>>])
      ELSE /\ LoadError
           /\ loads' = loads

loadMessages(cfg) ==
  LET src == SelectSource(isLocal, cfg)
  IN  IF src \in {"local", "fallback"}
        THEN /\ isLoading' = TRUE
             /\ isLoaded' = FALSE
             /\ view' = view
             /\ loads' = Enqueue(loads,
                  [Op("local", FreshTag(loads), "timer", "none")
                     EXCEPT !.joined = loads # <<>>])
      ELSE IF src = "portal" /\ cfg.portalDataSource[1].read
        THEN /\ isLoading' = TRUE
             /\ isLoaded' = FALSE
             /\ view' = view
             /\ loads' = Enqueue(loads,
                  [Op("portal", FreshTag(loads), "token", "pending")
                     EXCEPT !.arg = BuildFilter(cfg), !.joined = loads # <<>>])
      ELSE /\ LoadError
           /\ loads' = loads

\* the result of the synchronous part, for the history record
LoadStart(cfg) == IF LoadPends(cfg) THEN "pending" ELSE "error"

\* Main.init(options): validation, mergeConfig, setup (createWidget, loadMessages)
MainInit(options) ==
  /\ phase = "constructed"
  /\ IF InitRejects(options)
       THEN /\ ev' = Event("init", options.portalDataSource, "rejected")
            /\ UNCHANGED <<envVars, dataVars, flagVars, showArchived, loads,
                           updates, replies>>
       ELSE LET cfg == mergeConfig(config, options)
            IN  /\ LoadPends(cfg) => Room
                /\ phase' = "ready"
                /\ config' = cfg
                /\ loadMessages(cfg)
                /\ ev' = Event("init", options.portalDataSource, LoadStart(cfg))
                /\ UNCHANGED <<isLocal, dataVars, showArchived, updates,
                               replies>>

\* Main.refresh, called while `room` holds
RefreshWhen(room) ==
  /\ phase = "ready"
  /\ LoadPends(config) => room
  /\ loadMessages(config)
  /\ ev' = Chained("refresh", "", LoadStart(config),
                   IF ev.op = "markAllMessagesAsRead" /\ LoadPends(config)
                     THEN ev.since ELSE NoDate)
  /\ UNCHANGED <<envVars, dataVars, showArchived, updates, replies>>

Refresh == RefreshWhen(Room)

\* PortalInboxExtension.clearReadStatus
ClearReadStatus ==
  /\ phase = "ready"
  /\ LoadPends(config) => Room
  /\ lastChecked' = NoDate
  /\ loadMessages(config)
  /\ ev' = Event("clearReadStatus", "", LoadStart(config))
  /\ UNCHANGED <<envVars, messages, unreadCount, showArchived, updates, replies>>

\* ------------------------------------------------------------------------
\* Completion of a load cycle
\* ------------------------------------------------------------------------
\* the success path shared by both loaders: map, install, processMessages
InstallRecordsStillLoading(records, clock) ==
  LET mapped == mapPortalDataToMessages(records, lastChecked, clock)
  IN  /\ messages' = mapped
      /\ unreadCount' = CountUnread(mapped)
      /\ lastChecked' = SyncLastChecked(mapped, lastChecked)
      /\ isLoading' = (Len(loads) > 1)
      /\ isLoaded' = TRUE
      /\ view' = "messages"

InstallRecords(records, clock) ==
  LET mapped == mapPortalDataToMessages(records, lastChecked, clock)
  IN  /\ messages' = mapped
      /\ unreadCount' = CountUnread(mapped)
      /\ lastChecked' = SyncLastChecked(mapped, lastChecked)
      /\ isLoading' = FALSE
      /\ isLoaded' = TRUE
      /\ view' = "messages"

\* `data.value || data.messages || []`
SnapshotRows(data) == IF data.key \in {"value", "messages"} THEN data.rows ELSE <<>>

\* the 4 s timer of loadMessagesFromLocal fires: the file is fetched
LocalTimer(k) ==
  /\ k \in 1..Len(loads)
  /\ loads[k].stage = "timer"
  /\ loads' = Step(loads, k, <<[loads[k] EXCEPT !.stage = "fetch"]>>)
  /\ ev' = Chained("", "", "", Carry(k))
  /\ UNCHANGED <<envVars, dataVars, flagVars, showArchived, updates, replies>>

\* the snapshot fetch settles with the parsed body `data`
LocalLoaded(k, data, clock) ==
  /\ k \in 1..Len(loads)
  /\ loads[k].stage = "fetch"
  /\ ReadsClock(SnapshotRows(data)) \/ clock = 1
  /\ loads' = Step(loads, k, <<>>)
  /\ IF MapThrows(SnapshotRows(data))
       THEN /\ LoadError
            /\ ev' = Finished(k, [Event("localLoaded", "", "error")
                                    EXCEPT !.key = data.key])
            /\ UNCHANGED dataVars
       ELSE /\ InstallRecords(SnapshotRows(data), clock)
            /\ ev' = Finished(k, [Rendered("localLoaded", Carry(k),
                                            SnapshotRows(data), lastChecked)
                                     EXCEPT !.key = data.key])
  /\ UNCHANGED <<envVars, showArchived, updates, replies>>

\* the snapshot fetch rejects, answers non-ok, or its body does not parse
LocalFailed(k) ==
  /\ k \in 1..Len(loads)
  /\ loads[k].stage = "fetch"
  /\ loads' = Step(loads, k, <<>>)
  /\ LoadError
  /\ ev' = Finished(k, Event("localFailed", "", "error"))
  /\ UNCHANGED <<envVars, dataVars, showArchived, updates, replies>>

\* getPortalToken resolves in loadMessagesFromPortal: the GET is sent
PortalTokenOk(k) ==
  /\ k \in 1..Len(loads)
  /\ loads[k].stage = "token"
  /\ loads' = Step(loads, k, TokenResolved(loads[k]))
  /\ ev' = Chained("", "", "", Carry(k))
  /\ UNCHANGED <<envVars, dataVars, flagVars, showArchived, updates, replies>>

\* getPortalToken rejects in loadMessagesFromPortal
PortalTokenFail(k) ==
  /\ k \in 1..Len(loads)
  /\ loads[k].stage = "token"
  /\ loads' = Step(loads, k, TokenRejected(loads[k]))
  /\ LoadError
  /\ ev' = Finished(k, Event("portalTokenFail", "", "error"))
  /\ UNCHANGED <<envVars, dataVars, showArchived, updates, replies>>

\* the GET answers ok with `value` = rows
PortalLoaded(k, rows, clock) ==
  /\ k \in 1..Len(loads)
  /\ loads[k].stage = "request"
  /\ ReadsClock(rows) \/ clock = 1
  /\ loads' = Step(loads, k, <<>>)
  /\ IF MapThrows(rows)
       THEN /\ LoadError
            /\ ev' = Finished(k, Event("portalLoaded", "", "error"))
            /\ UNCHANGED dataVars
       ELSE /\ InstallRecords(rows, clock)
            /\ ev' = Finished(k, Rendered("portalLoaded", Carry(k), rows, lastChecked))
  /\ UNCHANGED <<envVars, showArchived, updates, replies>>

\* the GET rejects or answers with a non-ok status
PortalFailed(k) ==
  /\ k \in 1..Len(loads)
  /\ loads[k].stage = "request"
  /\ loads' = Step(loads, k, <<>>)
  /\ LoadError
  /\ ev' = Finished(k, Event("portalFailed", "", "error"))
  /\ UNCHANGED <<envVars, dataVars, showArchived, updates, replies>>

\* ------------------------------------------------------------------------
\* Read-state operations
\* ------------------------------------------------------------------------
\* the guard of updateMessageReadStatus: nothing is done in a local
\* environment or without portalDataSource
RemoteWritesAnywhere(local, cfg) == HasPortal(cfg)

RemoteWrites(local, cfg) == ~(local \/ ~HasPortal(cfg))

\* updateMessageReadStatus: the stored timestamp after a message dated
\* messageDate has been marked read
AdvanceLastChecked(stored, messageDate) ==
  IF messageDate # NoDate /\ messageDate > DateOrEpoch(stored) THEN messageDate
  ELSE stored

\* updatePortalCommentReadStatus up to its first await: "skipped" when it
\* logs that update operations are not enabled and returns, "token" when it
\* goes on to getPortalToken
UpdateStartUnchecked(cfg) == "token"

UpdateStart(cfg) == IF cfg.portalDataSource[1].update THEN "token" ELSE "skipped"

\* the catch blocks of updatePortalCommentReadStatus and
\* updateMessageReadStatus: the error is logged, the state is left alone
UpdateFailedReverts(state) ==
  [state EXCEPT
     !.messages = [k \in 1..Len(state.messages) |->
                     [state.messages[k] EXCEPT !.read = FALSE]],
     !.unreadCount = Len(state.messages)]

UpdateFailed(state) == state

\* `if (!message || message.read) return;`
ReturnsEarlyUnknownOnly(msgs, messageId) == FindMessage(msgs, messageId) = 0

ReturnsEarly(msgs, messageId) ==
  LET k == FindMessage(msgs, messageId)
  IN  k = 0 \/ msgs[k].read

\* Data.markMessageAsRead(messageId), called while `room` holds
MarkReadWhen(room, messageId) ==
  LET k == FindMessage(messages, messageId)
  IN  /\ phase = "ready"
      /\ IF ReturnsEarly(messages, messageId)
           THEN /\ ev' = Event("markMessageAsRead", messageId, "noop")
                /\ UNCHANGED <<dataVars, updates>>
           ELSE LET marked == SetRead(messages, k)
                    remote == RemoteWrites(isLocal, config)
                    start == IF remote THEN UpdateStart(config) ELSE "local"
                    stored == IF remote
                                THEN AdvanceLastChecked(lastChecked, marked[k].date)
                                ELSE lastChecked
                IN  /\ start = "token" => room
                    /\ messages' = marked
                    /\ updates' = IF start = "token"
                                    THEN Append(updates, Op("update", messageId, "token", "pending"))
                                    ELSE updates
                    /\ unreadCount' = CountUnread(marked)
                    /\ lastChecked' = SyncLastChecked(marked, stored)
                    /\ ev' = Event("markMessageAsRead", messageId, start)
      /\ UNCHANGED <<envVars, flagVars, showArchived, loads, replies>>

markMessageAsRead(messageId) == MarkReadWhen(WriteRoom, messageId)

\* getPortalToken resolves in updatePortalCommentReadStatus: the PATCH is sent
UpdateTokenOk(k) ==
  /\ k \in 1..Len(updates)
  /\ updates[k].stage = "token"
  /\ updates' = Step(updates, k, TokenResolved(updates[k]))
  /\ ev' = Quiet
  /\ UNCHANGED <<envVars, dataVars, flagVars, showArchived, loads, replies>>

\* the state the catch block of the update leaves behind
UpdateCaught ==
  LET after == UpdateFailed([messages |-> messages, unreadCount |-> unreadCount,
                             lastChecked |-> lastChecked])
  IN  /\ messages' = after.messages
      /\ unreadCount' = after.unreadCount
      /\ lastChecked' = after.lastChecked

\* getPortalToken rejects in updatePortalCommentReadStatus
UpdateTokenFail(k) ==
  /\ k \in 1..Len(updates)
  /\ updates[k].stage = "token"
  /\ updates' = Step(updates, k, TokenRejected(updates[k]))
  /\ UpdateCaught
  /\ ev' = Event("updateTokenFail", updates[k].id, "logged")
  /\ UNCHANGED <<envVars, flagVars, showArchived, loads, replies>>

\* the PATCH answers with a success status
UpdatePatched(k) ==
  /\ k \in 1..Len(updates)
  /\ updates[k].stage = "request"
  /\ updates' = Step(updates, k, <<>>)
  /\ loads' = [j \in DOMAIN loads |->
                 IF loads[j].stage = "request"
                   THEN [loads[j] EXCEPT !.patched = @ \cup {updates[k].id}]
                   ELSE loads[j]]
  /\ ev' = Event("updatePatched", updates[k].id, "ok")
  /\ UNCHANGED <<envVars, dataVars, flagVars, showArchived, replies>>

\* the PATCH rejects or answers with a non-ok status
UpdatePatchFail(k) ==
  /\ k \in 1..Len(updates)
  /\ updates[k].stage = "request"
  /\ updates' = Step(updates, k, <<>>)
  /\ UpdateCaught
  /\ ev' = Event("updatePatchFail", updates[k].id, "logged")
  /\ UNCHANGED <<envVars, flagVars, showArchived, loads, replies>>

\* markAllMessagesAsRead: `localStorage.setItem(key, now)`
MarkAllKeepsStored(stored, clock) == stored

MarkAllStored(stored, clock) == clock

\* Data.markAllMessagesAsRead, called when the clock reads `clock`
MarkAllPatches(clock) ==
  LET marked == SetAllRead(messages)
      patches == /\ RemoteWrites(isLocal, config)
                 /\ UpdateStart(config) = "token"
                 /\ \E k \in DOMAIN messages : ~messages[k].read
  IN  /\ phase = "ready"
      /\ messages' = marked
      /\ unreadCount' = CountUnread(marked)
      /\ lastChecked' = SyncLastChecked(marked, MarkAllStored(lastChecked, clock))
      /\ updates' = IF patches
                      THEN Append(updates, Op("update", messages[1].id, "token", "pending"))
                      ELSE updates
      /\ ev' = Chained("markAllMessagesAsRead", "", "done", clock)
      /\ UNCHANGED <<envVars, flagVars, showArchived, loads, replies>>

markAllMessagesAsRead(clock) ==
  LET marked == SetAllRead(messages)
  IN  /\ phase = "ready"
      /\ messages' = marked
      /\ unreadCount' = CountUnread(marked)
      /\ lastChecked' = SyncLastChecked(marked, MarkAllStored(lastChecked, clock))
      /\ ev' = Chained("markAllMessagesAsRead", "", "done", clock)
      /\ UNCHANGED <<envVars, flagVars, showArchived, loads, updates, replies>>

\* Data.toggleView
toggleView ==
  /\ phase = "ready"
  /\ showArchived' = ~showArchived
  /\ ev' = Quiet
  /\ UNCHANGED <<envVars, dataVars, flagVars, loads, updates, replies>>

\* ------------------------------------------------------------------------
\* Data.createReply
\* ------------------------------------------------------------------------
\* createReply up to its first await: the message of the failure it
\* returns, "token" when it goes on to getPortalToken
ReplyStartUnchecked(local, cfg, msgs, messageId) ==
  IF ~RemoteWrites(local, cfg) THEN "Local environment - reply not persisted"
  ELSE IF ~cfg.portalDataSource[1].create THEN "Create operations are not enabled"
  ELSE IF FindMessage(msgs, messageId) = 0 THEN "Original message not found"
  ELSE "token"

ReplyStart(local, cfg, msgs, messageId) ==
  LET k == FindMessage(msgs, messageId)
  IN  IF ~RemoteWrites(local, cfg) THEN "Local environment - reply not persisted"
      ELSE IF ~cfg.portalDataSource[1].create THEN "Create operations are not enabled"
      ELSE IF k = 0 THEN "Original message not found"
      ELSE IF ~Truthy(msgs[k].toContactId) THEN "Contact ID not found in original message"
      ELSE IF ~Truthy(msgs[k].fromStaffId) THEN "Staff ID not found in original message"
      ELSE "token"

\* Data.createReply(messageId, replyText), up to its first await
createReply(messageId, replyText) ==
  LET start == ReplyStart(isLocal, config, messages, messageId)
      originalMessage == messages[FindMessage(messages, messageId)]
  IN  /\ phase = "ready"
      /\ start = "token" => WriteRoom
      /\ replies' = IF start = "token"
                      THEN Append(replies,
                             [Op("reply", messageId, "token", "pending")
                                EXCEPT !.arg = <<[message |-> originalMessage,
                                                  text |-> replyText]>>])
                      ELSE replies
      /\ ev' = Event("createReply", messageId, start)
      /\ UNCHANGED <<envVars, dataVars, flagVars, showArchived, loads, updates>>

\* getPortalToken resolves in createReply: the POST is sent
ReplyTokenOk(k) ==
  /\ k \in 1..Len(replies)
  /\ replies[k].stage = "token"
  /\ replies' = Step(replies, k,
                     TokenResolved([replies[k] EXCEPT !.arg =
                       <<ReplyPayload(replies[k].arg[1].message,
                                      replies[k].arg[1].text, config)>>]))
  /\ ev' = Quiet
  /\ UNCHANGED <<envVars, dataVars, flagVars, showArchived, loads, updates>>

\* getPortalToken rejects in createReply: {success: false} is returned
ReplyTokenFail(k) ==
  /\ k \in 1..Len(replies)
  /\ replies[k].stage = "token"
  /\ replies' = Step(replies, k, TokenRejected(replies[k]))
  /\ ev' = Event("replyTokenFail", "", "failure")
  /\ UNCHANGED <<envVars, dataVars, flagVars, showArchived, loads, updates>>

\* the POST answers with a success status: {success: true} is returned
ReplyPosted(k) ==
  /\ k \in 1..Len(replies)
  /\ replies[k].stage = "request"
  /\ replies' = Step(replies, k, <<>>)
  /\ ev' = Event("replyPosted", "", "success")
  /\ UNCHANGED <<envVars, dataVars, flagVars, showArchived, loads, updates>>

\* the POST rejects or answers non-ok: {success: false} is returned
ReplyPostFailRetries(k) ==
  /\ k \in 1..Len(replies)
  /\ replies[k].stage = "request"
  /\ replies' = Step(replies, k, <<[replies[k] EXCEPT !.stage = "token",
                                                      !.token = "pending"]>>)
  /\ ev' = Quiet
  /\ UNCHANGED <<envVars, dataVars, flagVars, showArchived, loads, updates>>

ReplyPostFail(k) ==
  /\ k \in 1..Len(replies)
  /\ replies[k].stage = "request"
  /\ replies' = Step(replies, k, <<>>)
  /\ ev' = Event("replyPostFail", "", "failure")
  /\ UNCHANGED <<envVars, dataVars, flagVars, showArchived, loads, updates>>

\* ------------------------------------------------------------------------
\* Specification
\* ------------------------------------------------------------------------
\* message ids a caller may pass: the loaded ones and one that matches nothing
CallIds == Ids \cup {"m0"}

\* reply texts a caller may pass
ReplyTexts == {"Thank you", "Please call me"}

Slots == 1..MaxInFlight

Next ==
  \/ \E options \in OptionsSet : MainInit(options)
  \/ Refresh
  \/ ClearReadStatus
  \/ \E k \in Slots : LocalTimer(k)
  \/ \E k \in Slots, data \in SnapshotSet, clock \in Times :
        LocalLoaded(k, data, clock)
  \/ \E k \in Slots : LocalFailed(k)
  \/ \E k \in Slots : PortalTokenOk(k)
  \/ \E k \in Slots : PortalTokenFail(k)
  \/ \E k \in Slots, rows \in RecordListSet, clock \in Times : PortalLoaded(k, rows, clock)
  \/ \E k \in Slots : PortalFailed(k)
  \/ \E messageId \in CallIds : markMessageAsRead(messageId)
  \/ \E k \in Slots : UpdateTokenOk(k)
  \/ \E k \in Slots : UpdateTokenFail(k)
  \/ \E k \in Slots : UpdatePatched(k)
  \/ \E k \in Slots : UpdatePatchFail(k)
  \/ \E clock \in Times : markAllMessagesAsRead(clock)
  \/ toggleView
  \/ \E messageId \in CallIds, replyText \in ReplyTexts :
        createReply(messageId, replyText)
  \/ \E k \in Slots : ReplyTokenOk(k)
  \/ \E k \in Slots : ReplyTokenFail(k)
  \/ \E k \in Slots : ReplyPosted(k)
  \/ \E k \in Slots : ReplyPostFail(k)

Spec == Init /\ [][Next]_vars

\* ------------------------------------------------------------------------
\* Overlapping load cycles: init and refresh with up to MaxOverlap cycles
\* pending, over a small catalogue of responses. Every pending timer, token
\* retrieval and fetch eventually settles.
\* ------------------------------------------------------------------------
OverlapOptions ==
  { Options(TRUE, TRUE, "omitted", AllEnabled),
    Options(TRUE, TRUE, "null", AllEnabled),
    Options(TRUE, FALSE, "given", Operations(FALSE, TRUE, TRUE)),
    [Options(TRUE, TRUE, "given", AllEnabled) EXCEPT !.enabled = "false"] }

OverlapRows ==
  { <<>>,
    <<GoodRel("m1", 1, "false")>>,
    <<GoodRel("m1", 1, "true"), Legacy("m2", 2, Undefined)>>,
    <<GoodRel("m1", 2, Undefined)>>,
    <<GoodRel("m1", 1, Undefined)>>,
    <<GoodRel("m1", 2, "true"), GoodRel("m2", 2, Undefined)>>,
    <<GoodRel("m1", 1, "true"), Rel("m2", 1, NoDate, Undefined, "s1", "Support Team", <<>>)>> }

OverlapSlots == 1..MaxOverlap

\* the k-th pending load cycle takes the step it is waiting for
LocalSettles(k) ==
  \/ \E rows \in OverlapRows, clock \in Times :
       LocalLoaded(k, Payload("value", rows), clock)
  \/ LocalFailed(k)

PortalTokenSettles(k) == PortalTokenOk(k) \/ PortalTokenFail(k)

PortalSettles(k) ==
  \/ \E rows \in OverlapRows, clock \in Times : PortalLoaded(k, rows, clock)
  \/ PortalFailed(k)

OverlapNext ==
  \/ \E options \in OverlapOptions : MainInit(options)
  \/ RefreshWhen(Len(loads) < MaxOverlap)
  \/ \E k \in OverlapSlots : LocalTimer(k)
  \/ \E k \in OverlapSlots : LocalSettles(k)
  \/ \E k \in OverlapSlots : PortalTokenSettles(k)
  \/ \E k \in OverlapSlots : PortalSettles(k)

OverlapFairness ==
  \A k \in OverlapSlots :
    /\ WF_vars(LocalTimer(k))
    /\ WF_vars(LocalSettles(k))
    /\ WF_vars(PortalTokenSettles(k))
    /\ WF_vars(PortalSettles(k))

OverlapSpec == Init /\ [][OverlapNext]_vars /\ OverlapFairness

\* ------------------------------------------------------------------------
\* Requests: the load query and the reply payload, over configurations that
\* set operations.read.filter, regardingObject and publisher.prefix
\* ------------------------------------------------------------------------
RequestFilters ==
  {Null, "", "statecode eq 0", "statecode eq 0) or (statecode eq 1"}

RequestRegarding ==
  { <<Undefined, Undefined>>,
    <<"regardingobjectid_contoso_case", "contoso_cases">>,
    <<"regardingobjectid_contoso_case", Undefined>> }

RequestOptions ==
  { [Options(TRUE, FALSE, "given", Queried(AllEnabled, f, r[1], r[2]))
       EXCEPT !.prefix = p] :
      f \in RequestFilters, r \in RequestRegarding, p \in {Undefined, "contoso"} }

RequestRows ==
  { <<GoodRel("m1", 1, "false")>>,
    <<GoodRel("m1", 1, "true"), GoodRel("m2", 2, Undefined)>>,
    <<GoodRel("m1", 2, "false"), Legacy("m2", 1, Undefined)>>,
    <<Rel("m1", 1, NoDate, "false", "s1", "Support Team", NamelessRecipient)>>,
    <<Rel("m1", 1, NoDate, "false", "s1", Undefined, GoodParties)>>,
    <<Rel("m1", 1, NoDate, "false", "s1", "Support Team", TwoRecipients)>>,
    <<Rel("m1", 1, NoDate, "false", "s1", "Support Team", NoRecipient)>>,
    <<Rel("m1", 1, NoDate, "false", Undefined, "Support Team", GoodParties)>>,
    <<GoodRel("m1", 1, "true"),
      Rel("m2", 1, NoDate, "false", "s1", "Support Team", NoContactId)>> }

RequestNext ==
  \/ \E options \in RequestOptions : MainInit(options)
  \/ Refresh
  \/ PortalTokenOk(1)
  \/ PortalTokenFail(1)
  \/ \E rows \in RequestRows, clock \in Times : PortalLoaded(1, rows, clock)
  \/ PortalFailed(1)
  \/ \E messageId \in CallIds, replyText \in ReplyTexts :
        createReply(messageId, replyText)
  \/ ReplyTokenOk(1)
  \/ ReplyTokenFail(1)
  \/ ReplyPosted(1)
  \/ ReplyPostFail(1)

RequestSpec == Init /\ [][RequestNext]_vars

\* ------------------------------------------------------------------------
\* A read-flag update racing a load cycle: one GET and one PATCH may be under
\* way together, in a hosted context with the update operation enabled
\* ------------------------------------------------------------------------
RaceOptions == { Options(TRUE, FALSE, "given", AllEnabled) }

RaceRows ==
  { <<GoodRel("m1", 1, "false")>>,
    <<GoodRel("m1", 1, "true")>>,
    <<GoodRel("m1", 2, "false"), GoodRel("m2", 1, Undefined)>> }

RaceNext ==
  \/ \E options \in RaceOptions : MainInit(options)
  \/ RefreshWhen(loads = <<>>)
  \/ PortalTokenOk(1)
  \/ PortalTokenFail(1)
  \/ \E rows \in RaceRows, clock \in Times : PortalLoaded(1, rows, clock)
  \/ PortalFailed(1)
  \/ \E messageId \in Ids : MarkReadWhen(updates = <<>>, messageId)
  \/ UpdateTokenOk(1)
  \/ UpdateTokenFail(1)
  \/ UpdatePatched(1)
  \/ UpdatePatchFail(1)

RaceSpec == Init /\ [][RaceNext]_vars

\* ------------------------------------------------------------------------
\* Properties
\* ------------------------------------------------------------------------
\* a load cycle has just mapped ev.rows with ev.stored and installed the result
JustLoaded == ev.op \in {"localLoaded", "portalLoaded"} /\ ev.res = "rendered"

\* the record carries no server read state: a relationship-backed record
\* whose read-flag field is absent or null, a legacy record without `read`
NoServerFlag(row) ==
  IF IsLegacyShape(row) THEN row.read = Undefined ELSE ~Present(row.hasread)

\* C1. Server wins: after a load cycle, every message mapped from a
\* relationship-backed record whose read-flag field is present has exactly
\* that flag as its read state, whatever the stored timestamp was.
C1_ServerWins ==
  JustLoaded =>
    \A k \in 1..Len(ev.rows) :
      (~IsLegacyShape(ev.rows[k]) /\ Present(ev.rows[k].hasread))
        => messages[k].read = (ev.rows[k].hasread = "true")

\* a record flagged unread by the server, dated at or before the stored
\* timestamp the mapper read, has been loaded and is unread
C1_Witness ==
  /\ JustLoaded
  /\ \E k \in 1..Len(ev.rows) :
       /\ ev.rows[k].hasread = "false"
       /\ ev.rows[k].createdon # NoDate
       /\ ev.rows[k].createdon <= DateOrEpoch(ev.stored)
       /\ ~messages[k].read

\* C2 as stated: after a load cycle, every message mapped from a record
\* without server read state, legacy or relationship-backed, is read
\* exactly when its date is at or before the stored timestamp the mapper
\* read (the epoch when there was none).
C2_AsStated ==
  JustLoaded =>
    \A k \in 1..Len(ev.rows) :
      NoServerFlag(ev.rows[k])
        => messages[k].read = (messages[k].date <= DateOrEpoch(ev.stored))

\* C2, amended. After a load cycle, a message mapped from a
\* relationship-backed record that has `createdon` and no server read flag
\* is read exactly when its date is at or before the stored timestamp the
\* mapper read (the epoch when there was none); a message mapped from a
\* legacy record is read exactly when the record's own `read` is true.
C2_LocalFallback ==
  JustLoaded =>
    \A k \in 1..Len(ev.rows) :
      /\ (/\ ~IsLegacyShape(ev.rows[k])
          /\ ~Present(ev.rows[k].hasread)
          /\ ev.rows[k].createdon # NoDate)
           => messages[k].read = (messages[k].date <= DateOrEpoch(ev.stored))
      /\ IsLegacyShape(ev.rows[k])
           => messages[k].read = (ev.rows[k].read = "true")

\* a flagless relationship-backed record dated exactly at the stored
\* timestamp has been loaded next to a legacy record without `read` that is
\* dated no later
C2_Witness ==
  /\ JustLoaded
  /\ Len(ev.rows) = 2
  /\ ~IsLegacyShape(ev.rows[1]) /\ ev.rows[1].hasread = Undefined
  /\ ev.rows[1].createdon = ev.stored
  /\ messages[1].read
  /\ IsLegacyShape(ev.rows[2]) /\ ev.rows[2].read = Undefined
  /\ ev.rows[2].date <= ev.stored
  /\ ~messages[2].read

\* C4. Between handlers the unread count is the number of loaded messages
\* whose read flag is false.
C4_UnreadCount ==
  unreadCount = Cardinality({k \in DOMAIN messages : messages[k].read = FALSE})

\* one of two loaded messages has just been marked read, the other is unread
C4_Witness ==
  /\ ev.op = "markMessageAsRead" /\ ev.res # "noop"
  /\ Len(messages) = 2
  /\ unreadCount = 1

\* C3 as stated: no step other than clearReadStatus moves the stored
\* timestamp backward (a missing key counts as the epoch), whatever the
\* message dates and the clock.
C3_AsStated ==
  [][ev'.op # "clearReadStatus"
       => DateOrEpoch(lastChecked') >= DateOrEpoch(lastChecked)]_vars

\* C5 as stated: a load cycle started right after markAllMessagesAsRead
\* whose rows all lack server read state ends with an unread count of 0.
C5_AsStated ==
  (JustLoaded /\ ev.since # NoDate
     /\ \A k \in 1..Len(ev.rows) : NoServerFlag(ev.rows[k]))
    => unreadCount = 0

\* C5, amended. A load cycle started right after markAllMessagesAsRead ends
\* with an unread count of 0 when every row is a relationship-backed record
\* without server read flag whose `createdon` is at or before the clock
\* reading of the markAllMessagesAsRead call.
C5_MarkAllSurvivesReload ==
  (JustLoaded /\ ev.since # NoDate
     /\ \A k \in 1..Len(ev.rows) :
          /\ ~IsLegacyShape(ev.rows[k])
          /\ ~Present(ev.rows[k].hasread)
          /\ ev.rows[k].createdon # NoDate
          /\ ev.rows[k].createdon <= ev.since)
    => unreadCount = 0

\* markAllMessagesAsRead ran with nothing stored and nothing loaded, and the
\* load cycle after it delivered two flagless relationship-backed records
C5_Witness ==
  /\ JustLoaded /\ ev.since # NoDate
  /\ ev.stored = ev.since
  /\ Len(ev.rows) = 2
  /\ \A k \in 1..2 :
       /\ ~IsLegacyShape(ev.rows[k])
       /\ ev.rows[k].hasread = Undefined
       /\ ev.rows[k].createdon # NoDate
       /\ ev.rows[k].createdon <= ev.since
  /\ unreadCount = 0

\* the loaded message a lookup of messageId finds is unread
FindsUnread(messageId) ==
  \E k \in DOMAIN messages :
    /\ messages[k].id = messageId
    /\ \A j \in 1..(k - 1) : messages[j].id # messageId
    /\ ~messages[k].read

\* C6. markMessageAsRead on a loaded, unread message: when it returns the
\* message is read, the unread count is one lower, no other message's read
\* flag changed, and the stored timestamp is at or after the message's date,
\* in a local and in a hosted context, before any remote answer.
C6_MarkRead ==
  [][\A k \in DOMAIN messages :
       (/\ ev'.op = "markMessageAsRead"
        /\ ev'.id = messages[k].id
        /\ \A j \in 1..(k - 1) : messages[j].id # messages[k].id
        /\ ~messages[k].read)
         => /\ DOMAIN messages' = DOMAIN messages
            /\ messages'[k].read
            /\ unreadCount' = unreadCount - 1
            /\ \A j \in DOMAIN messages \ {k} :
                 messages'[j].read = messages[j].read
            /\ lastChecked' # NoDate
            /\ lastChecked' >= messages[k].date]_vars

\* in a hosted context the second of two unread messages has been marked
\* read, its date later than the timestamp stored before; the token
\* retrieval of its update is still pending
C6_Witness ==
  /\ ev.op = "markMessageAsRead" /\ ev.res = "token"
  /\ ~isLocal
  /\ Len(updates) = 1 /\ updates[1].stage = "token"
  /\ Len(messages) = 2
  /\ messages[2].id = ev.id /\ messages[2].read
  /\ ~messages[1].read
  /\ lastChecked = messages[2].date

\* C7. markMessageAsRead with an id that matches no loaded message, or the
\* id of a message already read, changes nothing: messages, unread count,
\* view mode and stored timestamp stay as they were, no token retrieval is
\* started and no request is sent.
C7_MarkReadNoOp ==
  [][\A messageId \in CallIds :
       (/\ ev'.op = "markMessageAsRead"
        /\ ev'.id = messageId
        /\ ~FindsUnread(messageId))
         => /\ ev'.res = "noop"
            /\ UNCHANGED <<messages, unreadCount, showArchived, lastChecked,
                           isLoading, isLoaded, view, loads, updates,
                           replies>>]_vars

\* in a hosted context with updates enabled, markMessageAsRead was called
\* for a message already read whose date is later than the stored timestamp
C7_Witness ==
  /\ ev.op = "markMessageAsRead" /\ ev.res = "noop"
  /\ RemoteWrites(isLocal, config) /\ config.portalDataSource[1].update
  /\ updates = <<>>
  /\ \E k \in DOMAIN messages :
       /\ messages[k].id = ev.id
       /\ messages[k].read
       /\ DateOrEpoch(lastChecked) < messages[k].date

\* C8. A failed remote read-flag update (token retrieval or PATCH) is only
\* logged: messages, unread count, stored timestamp and the widget's flags
\* stay as they were.
C8_UpdateFailureLocalOnly ==
  [][ev'.op \in {"updateTokenFail", "updatePatchFail"}
       => /\ ev'.res = "logged"
          /\ UNCHANGED <<messages, unreadCount, lastChecked, isLoading,
                         isLoaded, view, showArchived>>]_vars

\* the PATCH for a message has failed and the message is still read locally
C8_Witness ==
  /\ ev.op = "updatePatchFail"
  /\ \E k \in DOMAIN messages : messages[k].id = ev.id /\ messages[k].read
  /\ unreadCount < Len(messages)

\* the Web API requests that have been sent and not yet answered
Sent(ls, us, rs) ==
  Cardinality({k \in DOMAIN ls : ls[k].stage = "request"})
    + Cardinality({k \in DOMAIN us : us[k].stage = "request"})
    + Cardinality({k \in DOMAIN rs : rs[k].stage = "request"})

\* the k-th operation of seq has sent its request in this step
Sends(seq, after, k) ==
  /\ after[k].stage = "request"
  /\ k \in DOMAIN seq => seq[k].stage # "request"

\* C9. An operation sends its Web API request (GET, PATCH or POST) only in
\* the step in which its own token retrieval succeeds; when the token
\* retrieval fails the operation ends in failure without any request.
C9_TokenBeforeRequest ==
  [][/\ \A k \in DOMAIN loads' : Sends(loads, loads', k)
          => k \in DOMAIN loads /\ loads[k].stage = "token"
               /\ loads'[k].token = "ok"
     /\ \A k \in DOMAIN updates' : Sends(updates, updates', k)
          => k \in DOMAIN updates /\ updates[k].stage = "token"
               /\ updates'[k].token = "ok"
     /\ \A k \in DOMAIN replies' : Sends(replies, replies', k)
          => k \in DOMAIN replies /\ replies[k].stage = "token"
               /\ replies'[k].token = "ok"
     /\ ev'.op \in {"portalTokenFail", "updateTokenFail", "replyTokenFail"}
          => /\ Sent(loads', updates', replies') = Sent(loads, updates, replies)
             /\ InFlight' = InFlight - 1
     /\ ev'.op = "portalTokenFail"
          => ev'.res = "error" /\ view' = "error" /\ ~isLoading'
     /\ ev'.op = "updateTokenFail" => ev'.res = "logged"
     /\ ev'.op = "replyTokenFail" => ev'.res = "failure"]_vars

\* the token retrieval of a load cycle has failed: the error view is shown
\* and nothing is in flight
C9_Witness ==
  /\ ev.op = "portalTokenFail"
  /\ view = "error"
  /\ InFlight = 0

\* C10 as stated, for the remote API strategy: with update disabled the
\* read-flag update of a message just marked read ends as a failure, with
\* create disabled createReply returns the failure "Create operations are
\* not enabled", and neither starts a token retrieval.
C10_AsStated ==
  [][/\ (/\ ev'.op = "markMessageAsRead" /\ FindsUnread(ev'.id)
         /\ ~isLocal /\ HasPortal(config)
         /\ ~config.portalDataSource[1].update)
          => ev'.res = "failed" /\ updates' = updates
     /\ (/\ ev'.op = "createReply"
         /\ ~isLocal /\ HasPortal(config)
         /\ ~config.portalDataSource[1].create)
          => ev'.res = "Create operations are not enabled"
               /\ replies' = replies]_vars

\* C10, amended. In a hosted context with a portalDataSource: with update
\* disabled, marking a message read skips the remote update (a line is
\* logged, nothing fails), with create disabled createReply returns the
\* failure "Create operations are not enabled"; neither starts a token
\* retrieval or sends a request.
C10_OperationGating ==
  [][/\ (/\ ev'.op = "markMessageAsRead" /\ FindsUnread(ev'.id)
         /\ ~isLocal /\ HasPortal(config)
         /\ ~config.portalDataSource[1].update)
          => ev'.res = "skipped" /\ UNCHANGED <<loads, updates, replies>>
     /\ (/\ ev'.op = "createReply"
         /\ ~isLocal /\ HasPortal(config)
         /\ ~config.portalDataSource[1].create)
          => ev'.res = "Create operations are not enabled"
               /\ UNCHANGED <<loads, updates, replies>>]_vars

\* with update and create disabled in a hosted context, createReply for a
\* loaded message has just been refused, after that message had been marked
\* read locally
C10_Witness ==
  /\ ev.op = "createReply"
  /\ ev.res = "Create operations are not enabled"
  /\ ~isLocal /\ HasPortal(config)
  /\ ~config.portalDataSource[1].update
  /\ InFlight = 0
  /\ \E k \in DOMAIN messages : messages[k].read /\ messages[k].hasReadValue = "false"

\* the load cycle started under tag t is pending
Pending(t) == \E k \in DOMAIN loads : loads[k].id = t

\* C11. Every load cycle that is pending eventually ends, in one step that
\* either renders the messages or shows the error state, with isLoading
\* false and isLoaded true; that step starts no other cycle (no retry). A
\* call of loadMessages that fails before it starts a cycle ends the same way.
C11_LoadTerminates ==
  /\ \A n \in 1..MaxOverlap : Pending(Tags[n]) ~> ~Pending(Tags[n])
  /\ [][(\E n \in 1..MaxOverlap : Pending(Tags[n]) /\ ~Pending(Tags[n])')
          => /\ Len(loads') = Len(loads) - 1
             /\ ~isLoading' /\ isLoaded'
             /\ \/ ev'.res = "rendered" /\ view' = "messages"
                \/ ev'.res = "error" /\ view' = "error"]_vars
  /\ [][(ev'.op \in {"init", "refresh"} /\ ev'.res = "error")
          => /\ loads' = loads
             /\ ~isLoading' /\ isLoaded' /\ view' = "error"]_vars

\* of two overlapping load cycles the first has failed at its fetch: the
\* error state is shown and only the second cycle is still pending
C11_Witness ==
  /\ ev.op \in {"localFailed", "portalFailed"}
  /\ ev.id = "L1"
  /\ view = "error" /\ ~isLoading /\ isLoaded
  /\ Len(loads) = 1 /\ loads[1].id = "L2"

\* the id a raw record is known by
RowId(row) == IF IsLegacyShape(row) THEN row.id ELSE row.activityid

\* C12. A load cycle is all-or-nothing. When its fetch fails, its answer is
\* not a success, its token retrieval fails or the mapping of a record
\* throws, the cycle ends in the error state and messages, unread count and
\* stored timestamp keep the values they had; when it renders, the messages
\* are the rows of the response, one message per row in the same order.
C12_AllOrNothing ==
  /\ [](JustLoaded
          => /\ Len(messages) = Len(ev.rows)
             /\ \A k \in 1..Len(ev.rows) : messages[k].id = RowId(ev.rows[k]))
  /\ [][(\/ ev'.op \in {"localFailed", "portalFailed", "portalTokenFail"}
         \/ ev'.op \in {"localLoaded", "portalLoaded"} /\ ev'.res # "rendered")
          => /\ ev'.res = "error"
             /\ view' = "error" /\ ~isLoading' /\ isLoaded'
             /\ UNCHANGED <<messages, unreadCount, lastChecked>>]_vars

\* the mapping of a Web API response has thrown while two messages of an
\* earlier response were loaded: both are still there, the error is shown
C12_Witness ==
  /\ ev.op = "portalLoaded" /\ ev.res = "error"
  /\ view = "error"
  /\ Len(messages) = 2
  /\ unreadCount = 1

\* the loaded message a lookup of messageId finds lacks the recipient's
\* contact id or the sender's staff id
FindsIncomplete(messageId) ==
  \E k \in DOMAIN messages :
    /\ messages[k].id = messageId
    /\ \A j \in 1..(k - 1) : messages[j].id # messageId
    /\ \/ messages[k].toContactId \in {Undefined, Null, ""}
       \/ messages[k].fromStaffId \in {Undefined, Null, ""}

IdentityFailures ==
  {"Contact ID not found in original message",
   "Staff ID not found in original message"}

\* C13 as stated: createReply for a loaded message without toContactId or
\* without fromStaffId returns a failure that names the missing identity,
\* and starts neither a token retrieval nor a POST.
C13_AsStated ==
  [][(ev'.op = "createReply" /\ FindsIncomplete(ev'.id))
       => /\ ev'.res \in IdentityFailures
          /\ UNCHANGED <<loads, updates, replies>>]_vars

\* C13, amended. createReply for a loaded message without toContactId or
\* without fromStaffId starts neither a token retrieval nor a POST and
\* returns a failure; in a hosted context with a portalDataSource whose
\* create operation is enabled the failure names the missing identity, the
\* contact id when both are missing.
C13_NoPartialReply ==
  [][(ev'.op = "createReply" /\ FindsIncomplete(ev'.id))
       => /\ UNCHANGED <<loads, updates, replies>>
          /\ ev'.res \notin {"token", "success"}
          /\ (~isLocal /\ HasPortal(config) /\ config.portalDataSource[1].create)
               => /\ ev'.res \in IdentityFailures
                  /\ (\E k \in DOMAIN messages :
                        /\ messages[k].id = ev'.id
                        /\ messages[k].toContactId = Undefined)
                       => ev'.res = "Contact ID not found in original message"]_vars

\* in a hosted context with create enabled, createReply has just been
\* refused for a loaded legacy message, which has neither identity
C13_Witness ==
  /\ ev.op = "createReply"
  /\ ev.res = "Contact ID not found in original message"
  /\ ~isLocal /\ replies = <<>>
  /\ \E k \in DOMAIN messages :
       /\ messages[k].id = ev.id
       /\ messages[k].category = "general"
       /\ messages[k].fromStaffId = Undefined

\* the navigation property and entity set a configuration names for the
\* regarding object, the publisher-prefixed defaults when it names none
ConfiguredNavigation ==
  LET pds == config.portalDataSource[1]
      prefix == IF config.prefix \in {Undefined, Null, ""} THEN "msfed"
                ELSE config.prefix
  IN  IF pds.navigationProperty = Undefined
        THEN <<"regardingobjectid_", prefix, "_application">>
        ELSE <<pds.navigationProperty>>

ConfiguredEntitySet ==
  LET pds == config.portalDataSource[1]
      prefix == IF config.prefix \in {Undefined, Null, ""} THEN "msfed"
                ELSE config.prefix
  IN  IF pds.entitySetName = Undefined THEN <<prefix, "_applications">>
      ELSE <<pds.entitySetName>>

\* C14. The payload createReply posts for a message M that has toContactId
\* and fromStaffId has exactly two party entries, a sender (role 1) bound
\* to the contact M.toContactId and a recipient (role 2) bound to the system
\* user M.fromStaffId, direction code 1, subject "Re: " + M.subject, the
\* reply text as body, and M.regardingObjectId bound under the configured
\* navigation property; M is the loaded message the call found.
C14_ReplyPayload ==
  [][/\ \A k \in DOMAIN replies :
          (/\ replies[k].stage = "token"
           /\ k \in DOMAIN replies' /\ replies'[k].stage = "request")
            => LET M == replies[k].arg[1].message
                   P == replies'[k].arg[1]
               IN  /\ M.toContactId \notin {Undefined, Null, ""}
                   /\ M.fromStaffId \notin {Undefined, Null, ""}
                   /\ Len(P.parties) = 2
                   /\ P.parties[1].participationtypemask = 1
                   /\ P.parties[1].key = "partyid_contact@odata.bind"
                   /\ P.parties[1].value = <<"/", "contacts", "(", M.toContactId, ")">>
                   /\ P.parties[2].participationtypemask = 2
                   /\ P.parties[2].key = "partyid_systemuser@odata.bind"
                   /\ P.parties[2].value = <<"/", "systemusers", "(", M.fromStaffId, ")">>
                   /\ P.adx_portalcommentdirectioncode = 1
                   /\ P.subject = <<"Re: ", M.subject>>
                   /\ P.description = replies[k].arg[1].text
                   /\ P.regardingKey = ConfiguredNavigation \o <<"@odata.bind">>
                   /\ P.regardingValue
                        = <<"/">> \o ConfiguredEntitySet
                            \o <<"(", M.regardingObjectId, ")">>
     /\ (ev'.op = "createReply" /\ ev'.res = "token")
          => \E j \in DOMAIN messages :
               /\ messages[j].id = ev'.id
               /\ replies'[Len(replies')].arg[1].message = messages[j]]_vars

\* the POST of a reply to the first message is under way, under a
\* configured navigation property and the default entity set
C14_Witness ==
  /\ Len(replies) = 1 /\ replies[1].stage = "request"
  /\ replies[1].id = "m1"
  /\ replies[1].arg[1].description = "Please call me"
  /\ replies[1].arg[1].regardingKey
       = <<"regardingobjectid_contoso_case", "@odata.bind">>
  /\ replies[1].arg[1].regardingValue
       = <<"/", "contoso", "_applications", "(", "app-1", ")">>

\* C17. The $filter of every GET a load cycle sends is the direction
\* predicate alone when operations.read.filter is not set (null or empty),
\* and otherwise the direction predicate, " and ", and the caller's filter in
\* parentheses; the predicate is never dropped or replaced.
C17_DirectionFilter ==
  \A k \in DOMAIN loads :
    (loads[k].kind = "portal" /\ loads[k].stage = "request")
      => LET f == config.portalDataSource[1].filter
         IN  /\ loads[k].arg[1] = "adx_portalcommentdirectioncode eq 2"
             /\ IF f \in {Null, Undefined, ""}
                  THEN loads[k].arg = <<"adx_portalcommentdirectioncode eq 2">>
                  ELSE loads[k].arg
                         = <<"adx_portalcommentdirectioncode eq 2", " and ",
                             "(", f, ")">>

\* a GET is under way under a configuration whose read filter is set
C17_Witness ==
  /\ Len(loads) = 1 /\ loads[1].stage = "request"
  /\ config.portalDataSource[1].filter = "statecode eq 0"
  /\ Len(loads[1].arg) = 5

\* the POSTs of createReply calls that have been sent and not yet answered
Posts(rs) == Cardinality({k \in DOMAIN rs : rs[k].stage = "request"})

ReplyRefusals ==
  {"Local environment - reply not persisted",
   "Create operations are not enabled",
   "Original message not found",
   "Contact ID not found in original message",
   "Staff ID not found in original message"}

\* C15. No step of a createReply call changes messages, unread count or the
\* stored timestamp. A call either returns a failure at once, or waits for
\* the token, sends one POST when the token arrives, and ends when the token
\* retrieval fails (failure), the POST fails (failure, the POST is not sent
\* again) or the POST succeeds (success, the only way to it).
C15_ReplyResult ==
  [][(ev'.op = "createReply" \/ replies' # replies)
       => /\ UNCHANGED <<messages, unreadCount, lastChecked>>
          /\ \/ /\ ev'.op = "createReply" /\ ev'.res \in ReplyRefusals
                /\ replies' = replies
             \/ /\ ev'.op = "createReply" /\ ev'.res = "token"
                /\ Len(replies') = Len(replies) + 1
                /\ replies'[Len(replies')].stage = "token"
                /\ Posts(replies') = Posts(replies)
             \/ /\ ev'.op = ""
                /\ Len(replies') = Len(replies)
                /\ Posts(replies') = Posts(replies) + 1
                /\ \A k \in DOMAIN replies :
                     replies[k].stage = "request" => replies'[k] = replies[k]
             \/ /\ ev'.op = "replyTokenFail" /\ ev'.res = "failure"
                /\ Len(replies') = Len(replies) - 1
                /\ Posts(replies') = Posts(replies)
             \/ /\ ev'.op = "replyPostFail" /\ ev'.res = "failure"
                /\ Len(replies') = Len(replies) - 1
                /\ Posts(replies') = Posts(replies) - 1
             \/ /\ ev'.op = "replyPosted" /\ ev'.res = "success"
                /\ Len(replies') = Len(replies) - 1
                /\ Posts(replies') = Posts(replies) - 1]_vars

\* the POST of a reply has failed while an unread message is loaded: the
\* call has ended and nothing is pending
C15_Witness ==
  /\ ev.op = "replyPostFail" /\ ev.res = "failure"
  /\ replies = <<>>
  /\ unreadCount = 1 /\ Len(messages) = 2

\* C16. Every relationship-backed message in `messages` has a sender id, a
\* recipient id and a recipient display name that are all resolved.
C16_AsStated ==
  \A k \in 1..Len(messages) :
    messages[k].category = "portal-comment"
      => /\ Truthy(messages[k].fromStaffId)
         /\ Truthy(messages[k].toContactId)
         /\ Truthy(messages[k].toContact)

\* C16 as the code has it. Every relationship-backed message in `messages`
\* has a sender id, a recipient id and a sender display name that are all
\* resolved: a record lacking one of them makes the mapping throw, so that
\* nothing of its response is installed. The recipient display name is
\* copied as it comes.
C16_ResolvedIdentities ==
  \A k \in 1..Len(messages) :
    messages[k].category = "portal-comment"
      => /\ Truthy(messages[k].fromStaffId)
         /\ Truthy(messages[k].toContactId)
         /\ Truthy(messages[k].from)

\* a response whose record names the recipient by id only has been installed
C16_Witness ==
  /\ JustLoaded
  /\ Len(messages) = 1
  /\ messages[1].category = "portal-comment"
  /\ messages[1].toContactId = "c1"
  /\ messages[1].toContact = Undefined

\* C18. An init call whose options carry `enabled: false` does not
\* initialize: setup does not run and no load cycle is started.
C18_AsStated ==
  [][(ev'.op = "init" /\ config'.enabled = "false")
       => /\ phase' = "constructed"
          /\ loads' = loads
          /\ ~isLoading']_vars

\* C19. In a hosted context, an init call whose options give a snapshot
\* location and no API configuration starts a snapshot load, and an init call
\* starts an API load only when its options give an API configuration.
C19_AsStated ==
  [][(ev'.op = "init" /\ ev'.res = "pending" /\ ~isLocal')
       => LET started == loads'[Len(loads')]
          IN  /\ (config'.localDataSource /\ ev'.id # "given")
                   => started.kind = "local"
              /\ started.kind = "portal" => ev'.id = "given"]_vars

\* the steps that end a load cycle
LoadEnds ==
  {"localLoaded", "localFailed", "portalTokenFail", "portalLoaded", "portalFailed"}

\* C20. Overlapping load cycles are neither serialized nor cancelled. A call
\* of loadMessages made while cycles are pending starts its own cycle at once
\* and leaves the pending ones as they are; a cycle that ends removes itself
\* only; and the response of a cycle that was overtaken by a later one is
\* installed like any other, so that the messages are those of the response
\* processed last, whichever cycle it belongs to.
C20_OverlappingLoads ==
  /\ [][(ev'.op \in {"init", "refresh"} /\ ev'.res = "pending")
          => /\ Len(loads') = Len(loads) + 1
             /\ \A k \in DOMAIN loads : loads'[k] = loads[k]
             /\ loads'[Len(loads')].stage \in {"timer", "token"}]_vars
  /\ [][ev'.op \in LoadEnds
          => /\ Len(loads') = Len(loads) - 1
             /\ \E k \in DOMAIN loads :
                  /\ loads[k].id = ev'.id
                  /\ \A j \in DOMAIN loads' :
                       /\ loads'[j].id = loads[IF j < k THEN j ELSE j + 1].id
                       /\ loads'[j].stage = loads[IF j < k THEN j ELSE j + 1].stage]_vars
  /\ []((JustLoaded /\ ev.stale)
          => /\ Len(messages) = Len(ev.rows)
             /\ \A k \in 1..Len(ev.rows) : messages[k].id = RowId(ev.rows[k]))

\* two cycles overlapped, the one started later ended first, and the response
\* of the earlier one has been processed last: its rows are the messages
C20_Witness ==
  /\ JustLoaded /\ ev.stale
  /\ loads = <<>>
  /\ Len(messages) = 2
  /\ unreadCount = 1

\* the load cycle that ends in this step was started while no other was
\* pending, and none was started after it
Alone == Len(loads) = 1 /\ ~loads[1].joined /\ ~loads[1].overtaken

\* the loaded message msg was mapped from the record `row` names, in a load
\* where the record carried the server read flag that msg.read still shows,
\* and `row` is that record without the flag
SameRecordUnflagged(msg, row) ==
  /\ ~IsLegacyShape(row)
  /\ msg.category = "portal-comment"
  /\ msg.id = row.activityid
  /\ msg.date = row.createdon
  /\ Present(msg.hasReadValue)
  /\ msg.read = BoolOf(msg.hasReadValue)
  /\ ~Present(row.hasread)

\* C21. Fallback reconstruction: when a load installs records without the
\* server read flag, every one of them that is loaded already, from a load
\* where it carried the flag, gets the read value the flag had given it.
C21_AsStated ==
  [][(ev'.op \in {"localLoaded", "portalLoaded"} /\ ev'.res = "rendered" /\ Alone)
       => \A k \in 1..Len(ev'.rows) : \A j \in DOMAIN messages :
            SameRecordUnflagged(messages[j], ev'.rows[k])
              => messages'[k].read = messages[j].read]_vars

\* C22 as stated: markAllMessagesAsRead leaves the current instant as the
\* stored timestamp.
C22_AsStated ==
  [][ev'.op = "markAllMessagesAsRead" => lastChecked' = ev'.since]_vars

\* C22, amended. markAllMessagesAsRead sets every loaded message read and the
\* unread count to zero, leaves as stored timestamp the later of the current
\* instant and the latest date of a loaded message, and starts no token
\* retrieval and no request, in every context and under every configuration.
C22_MarkAllLocalOnly ==
  [][ev'.op = "markAllMessagesAsRead"
       => /\ Len(messages') = Len(messages)
          /\ \A k \in DOMAIN messages :
               messages'[k].read /\ messages'[k].id = messages[k].id
          /\ unreadCount' = 0
          /\ lastChecked' \in {ev'.since} \cup {messages[k].date : k \in DOMAIN messages}
          /\ lastChecked' >= ev'.since
          /\ \A k \in DOMAIN messages : lastChecked' >= messages[k].date
          /\ UNCHANGED <<loads, updates, replies>>]_vars

\* in a hosted context with updates enabled, two messages are loaded, one of
\* them dated after the clock reading of the call: all are read, the stored
\* timestamp is that date, and nothing is in flight
C22_Witness ==
  /\ ev.op = "markAllMessagesAsRead"
  /\ ~isLocal /\ HasPortal(config) /\ config.portalDataSource[1].update
  /\ Len(messages) = 2
  /\ unreadCount = 0
  /\ lastChecked > ev.since
  /\ updates = <<>> /\ loads = <<>> /\ replies = <<>>

\* no loaded message that is read is dated after the stored timestamp
ReadCovered ==
  \A k \in DOMAIN messages :
    messages[k].read => (lastChecked # NoDate /\ lastChecked >= messages[k].date)

\* C23 as stated: after every load cycle that rendered and after every call
\* of markMessageAsRead or markAllMessagesAsRead, no read message is dated
\* after the stored timestamp.
C23_AsStated ==
  (JustLoaded \/ ev.op \in {"markMessageAsRead", "markAllMessagesAsRead"})
    => ReadCovered

\* C23, amended. After every load cycle that rendered, after every call of
\* markAllMessagesAsRead and after every call of markMessageAsRead that found
\* an unread message, no read message is dated after the stored timestamp.
C23_StoredCoversRead ==
  (\/ JustLoaded
   \/ ev.op = "markAllMessagesAsRead"
   \/ ev.op = "markMessageAsRead" /\ ev.res # "noop")
    => \A k \in DOMAIN messages :
         messages[k].read => (lastChecked # NoDate /\ lastChecked >= messages[k].date)

\* a load has installed two read messages of different dates: the stored
\* timestamp is the later date
C23_Witness ==
  /\ JustLoaded
  /\ Len(messages) = 2
  /\ messages[1].read /\ messages[2].read
  /\ messages[1].date < messages[2].date
  /\ lastChecked = messages[2].date
  /\ ev.stored = NoDate

\* the party is flagged as recipient and carries a contact reference
IsRecipient(party) ==
  party.participationtypemask = 2 /\ Len(party.partyid_contact) = 1

\* C24. Every relationship-backed record of a response that was installed
\* has a party of role 2 with a contact reference, and its message names the
\* contact of the first such party as recipient, however many follow; a
\* response holding a record without such a party is never installed.
C24_FirstRecipient ==
  JustLoaded
    => \A k \in 1..Len(ev.rows) :
         ~IsLegacyShape(ev.rows[k])
           => \E p \in DOMAIN ev.rows[k].parties :
                /\ IsRecipient(ev.rows[k].parties[p])
                /\ \A q \in 1..(p - 1) : ~IsRecipient(ev.rows[k].parties[q])
                /\ messages[k].toContactId =
                     ev.rows[k].parties[p].partyid_contact[1].contactid
                /\ messages[k].toContact =
                     ev.rows[k].parties[p].partyid_contact[1].fullname

\* a record with three parties of role 2, the first without contact
\* reference, has been installed: the recipient is the contact of the second
C24_Witness ==
  /\ JustLoaded
  /\ Len(ev.rows) = 1
  /\ Len(ev.rows[1].parties) = 3
  /\ \A p \in 1..3 : ev.rows[1].parties[p].participationtypemask = 2
  /\ messages[1].toContactId = "c1"
  /\ messages[1].toContact = "John Doe"

\* C25. No message is installed from a relationship-backed record that
\* lacks its creation timestamp: the date of every such message is the
\* `createdon` of its record.
C25_AsStated ==
  JustLoaded
    => \A k \in 1..Len(ev.rows) :
         ~IsLegacyShape(ev.rows[k])
           => /\ ev.rows[k].createdon # NoDate
              /\ messages[k].date = ev.rows[k].createdon

\* C26. A snapshot load whose retrieval fails, or whose parsed body holds a
\* row sequence under neither `value` nor `messages`, ends in the error
\* state and renders no list.
C26_AsStated ==
  /\ ev.op = "localFailed" => (ev.res = "error" /\ view = "error")
  /\ (ev.op = "localLoaded" /\ ev.key = "neither")
       => (ev.res = "error" /\ view = "error")

\* the loaded messages are those the rows were mapped to by an earlier load:
\* the same records in the same order, with the same server read state
SameRecords(msgs, rows) ==
  /\ Len(rows) = Len(msgs)
  /\ \A k \in 1..Len(rows) :
       IF IsLegacyShape(rows[k])
         THEN /\ msgs[k].category = "general"
              /\ msgs[k].id = rows[k].id
              /\ msgs[k].date = rows[k].date
              /\ msgs[k].read = (rows[k].read = "true")
         ELSE /\ msgs[k].category = "portal-comment"
              /\ msgs[k].id = rows[k].activityid
              /\ msgs[k].hasReadValue = rows[k].hasread
              /\ rows[k].createdon # NoDate => msgs[k].date = rows[k].createdon

\* C27. Where only init, refresh and load cycles happen: a load cycle run
\* after the one before it has ended, installing the records the loaded
\* messages were mapped from, gives every message the read flag it had and
\* leaves the unread count as it was.
C27_AsStated ==
  [][(ev'.op \in {"localLoaded", "portalLoaded"} /\ ev'.res = "rendered"
        /\ loads = <<loads[1]>> /\ ~loads[1].joined /\ ~ev'.stale
        /\ SameRecords(messages, ev'.rows))
       => /\ \A k \in DOMAIN messages : messages'[k].read = messages[k].read
          /\ unreadCount' = unreadCount]_vars

\* C28 as stated: while a load cycle is in flight, isLoading is true and
\* isLoaded is false.
C28_AsStated == loads # <<>> => (isLoading /\ ~isLoaded)

\* C28, amended. A call of loadMessages that starts a cycle sets isLoading
\* and clears isLoaded; the end of any cycle clears isLoading and sets
\* isLoaded, whatever other cycles are still in flight, and so does a call
\* that fails before it starts a cycle; the steps in between leave both
\* flags alone. So the flags are those of a cycle in flight as
\* long as that cycle was started while no other was pending, none was
\* started after it and none has ended since.
C28_LoadingFlags ==
  /\ [][(ev'.op \in {"init", "refresh"} /\ ev'.res = "pending")
          => (isLoading' /\ ~isLoaded')]_vars
  /\ [][(Len(loads') < Len(loads)) => (~isLoading' /\ isLoaded')]_vars
  /\ [][(ev'.op \in {"init", "refresh"} /\ ev'.res = "error")
          => (~isLoading' /\ isLoaded')]_vars
  /\ [][(Len(loads') = Len(loads) /\ ev'.op \notin {"init", "refresh"})
          => UNCHANGED <<isLoading, isLoaded>>]_vars
  /\ []((Len(loads) = 1 /\ ~loads[1].joined /\ ~loads[1].overtaken)
          => (isLoading /\ ~isLoaded))

\* of two overlapping cycles one has rendered its response: the list is
\* shown as loaded while the other cycle is still in flight
C28_Witness ==
  /\ ev.op \in {"localLoaded", "portalLoaded"} /\ ev.res = "rendered"
  /\ Len(loads) = 1
  /\ ~isLoading /\ isLoaded
  /\ view = "messages"

\* C29. A load cycle whose request was under way when the PATCH of a message
\* was answered with success, and that installs its response afterwards,
\* leaves that message read if it was read.
C29_AsStated ==
  [][(ev'.op = "portalLoaded" /\ ev'.res = "rendered")
       => \A k \in DOMAIN loads : \A j \in DOMAIN messages :
            (/\ loads[k].id = ev'.id
             /\ messages[j].id \in loads[k].patched
             /\ messages[j].read)
              => \A n \in DOMAIN messages' :
                   messages'[n].id = messages[j].id => messages'[n].read]_vars

\* C30. In a local context no read-flag update and no reply is ever in
\* flight and no load cycle retrieves a token; every createReply call returns
\* the failure "Local environment - reply not persisted"; and
\* markMessageAsRead on a loaded unread message still sets it read and leaves
\* the stored timestamp at or after the message's date, never earlier than
\* it was.
C30_LocalNeverWrites ==
  /\ [](isLocal => /\ updates = <<>> /\ replies = <<>>
                   /\ \A k \in DOMAIN loads : loads[k].kind = "local")
  /\ [][(isLocal /\ ev'.op = "createReply")
          => /\ ev'.res = "Local environment - reply not persisted"
             /\ UNCHANGED <<messages, unreadCount, lastChecked>>]_vars
  /\ [][(isLocal /\ ev'.op = "markMessageAsRead")
          => \A k \in DOMAIN messages :
               (/\ messages[k].id = ev'.id
                /\ \A j \in 1..(k - 1) : messages[j].id # ev'.id
                /\ ~messages[k].read)
                 => /\ messages'[k].read
                    /\ unreadCount' = unreadCount - 1
                    /\ lastChecked' # NoDate
                    /\ lastChecked' >= messages[k].date
                    /\ lastChecked' >= lastChecked]_vars

\* in a local context whose configuration holds a portalDataSource with every
\* operation enabled, the later of two loaded messages has been marked read:
\* the stored timestamp is its date and nothing is in flight
C30_Witness ==
  /\ isLocal /\ HasPortal(config)
  /\ config.portalDataSource[1].update /\ config.portalDataSource[1].create
  /\ ev.op = "markMessageAsRead" /\ ev.res = "local"
  /\ Len(messages) = 2
  /\ messages[2].id = ev.id /\ messages[2].read
  /\ lastChecked = messages[2].date
  /\ messages[1].date < messages[2].date
  /\ InFlight = 0

====
